---- MODULE Spec2Model ----
(***************************************************************************)
(* Model of src/tools/offsetpreload.c: the LD_PRELOAD wrapper that adds an *)
(* offset to pread64/pwrite64 on the descriptor of one tracked file.       *)
(*                                                                         *)
(* Numbers.  An `int' of the program is a TLA+ integer in                  *)
(* -2^31 .. 2^31-1.  An `off_t' or `long' (64 bits) is a tuple of four     *)
(* 16-bit limbs, least significant first, in two's complement.             *)
(* A C string is a sequence of one-character strings; a path is an atomic  *)
(* string, compared as a whole by strcmp.                                  *)
(***************************************************************************)
EXTENDS Integers, Sequences, FiniteSets, TLC

VARIABLES
    envFile,            \* environment: OFFSETPRELOAD_FILE (NULL when unset)
    envOffset,          \* environment: OFFSETPRELOAD_OFFSET (NULL when unset)
    offsetfd,           \* static int offsetfd
    offsetval,          \* static int offsetval
    offsetpath,         \* static char *offsetpath of ___open64
    original,           \* the four static original_* pointers, by wrapper name
    crashed,            \* the process died calling through a null pointer
    last,               \* the most recent wrapper call and its delegation
    envReads,           \* how often the environment was read
    lookups,            \* how often dlsym ran, by wrapper name
    called,             \* which wrappers were called at least once
    matches,            \* the last two descriptors of successful target opens
    pc,                 \* per thread: the statement it is at inside a call
    frame,              \* per thread: the arguments and locals of its call
    firstOpen           \* how the open calls overlapped so far:
                        \*   none       no open call yet
                        \*   running    the first open call is in progress, alone
                        \*   raced      another open was entered meanwhile
                        \*   returned   the first open returned before any other
                        \*   concurrent as returned, and later opens overlapped

vars == <<envFile, envOffset, offsetfd, offsetval, offsetpath, original,
          crashed, last, envReads, lookups, called, matches,
          pc, frame, firstOpen>>

NULL == "(null)"

\* ---------------------------------------------------------------- bounds
\* Saturation point of the counting history variables.
MaxCount == 2

\* -------------------------------------------------------- 64-bit numbers
LimbBase == 256 * 256
IntMax == 32767 * LimbBase + 65535
IntMin == (-32768) * LimbBase

\* The 64-bit two's complement image of an int (sign extension).
SignExtend(n) ==
    LET lo  == n % LimbBase
        hi  == (n \div LimbBase) % LimbBase
        top == IF n < 0 THEN LimbBase - 1 ELSE 0
    IN  <<lo, hi, top, top>>

\* 64-bit addition, as the machine performs it.
Add64(a, b) ==
    LET s1 == a[1] + b[1]
        s2 == a[2] + b[2] + (s1 \div LimbBase)
        s3 == a[3] + b[3] + (s2 \div LimbBase)
        s4 == a[4] + b[4] + (s3 \div LimbBase)
    IN  <<s1 % LimbBase, s2 % LimbBase, s3 % LimbBase, s4 % LimbBase>>

\* 64-bit negation.
Neg64(a) ==
    Add64(<<LimbBase - 1 - a[1], LimbBase - 1 - a[2],
            LimbBase - 1 - a[3], LimbBase - 1 - a[4]>>, <<1, 0, 0, 0>>)

\* n * 10 + d on 64 bits.
MulAdd10(a, d) ==
    LET s1 == a[1] * 10 + d
        s2 == a[2] * 10 + (s1 \div LimbBase)
        s3 == a[3] * 10 + (s2 \div LimbBase)
        s4 == a[4] * 10 + (s3 \div LimbBase)
    IN  <<s1 % LimbBase, s2 % LimbBase, s3 % LimbBase, s4 % LimbBase>>

\* Does the 64-bit value fit an int?
FitsInt(a) ==
    \/ a[3] = 0 /\ a[4] = 0 /\ a[2] < 32768
    \/ a[3] = LimbBase - 1 /\ a[4] = LimbBase - 1 /\ a[2] >= 32768

\* The conversion (int) of a long: the low 32 bits, read as signed.
Trunc32(a) ==
    IF a[2] >= 32768 THEN (a[2] - LimbBase) * LimbBase + a[1]
                     ELSE a[2] * LimbBase + a[1]

IsNeg64(a) == a[4] >= 32768

\* ------------------------------------------------------------- C strings
Digits == {"0", "1", "2", "3", "4", "5", "6", "7", "8", "9"}
Spaces == {" "}

DigitVal(c) ==
    CASE c = "0" -> 0 [] c = "1" -> 1 [] c = "2" -> 2 [] c = "3" -> 3
      [] c = "4" -> 4 [] c = "5" -> 5 [] c = "6" -> 6 [] c = "7" -> 7
      [] c = "8" -> 8 [] c = "9" -> 9

\* isspace, isdigit and the sign test of the number scanner.
SkipSpaces(s, i) ==
    LET RECURSIVE Skip(_)
        Skip(k) == IF k <= Len(s) /\ s[k] \in Spaces THEN Skip(k + 1) ELSE k
    IN  Skip(i)

\* The digit loop of strtol: stops at the first character that is no digit.
ScanDigits(s, i) ==
    LET RECURSIVE Scan(_, _)
        Scan(k, acc) ==
            IF k <= Len(s) /\ s[k] \in Digits
            THEN Scan(k + 1, MulAdd10(acc, DigitVal(s[k])))
            ELSE acc
    IN  Scan(i, <<0, 0, 0, 0>>)

\* strtol(s, NULL, 10) for strings short enough not to leave a long.
strtol(s) ==
    LET i   == SkipSpaces(s, 1)
        neg == i <= Len(s) /\ s[i] = "-"
        j   == IF i <= Len(s) /\ s[i] \in {"+", "-"} THEN i + 1 ELSE i
        mag == ScanDigits(s, j)
    IN  IF neg THEN Neg64(mag) ELSE mag

\* atoi(s): the values the call can produce.  Inside the range of int it is
\* the number scanned; outside it the behaviour is undefined, and the C
\* libraries either keep the low 32 bits of the long or saturate.
atoi(s) ==
    LET v == strtol(s)
    IN  IF FitsInt(v) THEN {Trunc32(v)}
        ELSE {Trunc32(v), IF IsNeg64(v) THEN IntMin ELSE IntMax}

\* strcmp(a, b) on paths: zero exactly when the two strings are equal.
strcmp(a, b) == IF a = b THEN 0 ELSE 1

\* ---------------------------------------------------------------- inputs
Wrappers == {"pread64", "pwrite64", "__open64_2", "open64"}
Opens    == {"__open64_2", "open64"}
Transfers == {"pread64", "pwrite64"}

\* What dlsym(RTLD_NEXT, name) can return: the next definition, or NULL.
NextSymbol(name) == "next:" \o name
dlsym(name) == {NextSymbol(name), NULL}

FileEnvValues == {NULL, "/img.bin"}
OffsetEnvValues ==
    { NULL,
      <<"1", "0", "2", "4">>,
      <<"-", "5", "1", "2">>,
      <<"a", "b", "c">>,
      <<"1", "2", "a", "b">>,
      <<" ", "+", "7">>,
      <<"2", "1", "4", "7", "4", "8", "3", "6", "4", "8">> }
PathArgs   == {"/img.bin", "//img.bin", "/other.bin"}
FlagArgs   == {<<0, 0, 0>>, <<66, 420, 0>>}
OpenResults == {-1, 0, 3}
FdArgs     == {-3, -2, 0, 3}
BufArgs    == {<<"bufA", 100>>, <<"bufB", 0>>}
OffsetArgs == {SignExtend(0), SignExtend(-1), SignExtend(2048)}
TransferResults == {-1, 50}

\* The threads of the host process and what they pass when they interleave.
Threads == {"t1", "t2"}
ThreadFileEnv   == {"/img.bin"}
ThreadOffsetEnv == {NULL, <<"1", "0", "2", "4">>}
ThreadPaths     == {"/img.bin", "/other.bin"}
ThreadFlags     == {<<0, 0, 0>>}
ThreadOpenResults == {-1, 3}
ThreadFds       == {3}
ThreadBufs      == {<<"bufA", 100>>}
ThreadOffsets   == {SignExtend(0)}
ThreadTransferResults == {50}

Bump(n) == IF n < MaxCount THEN n + 1 ELSE MaxCount

NoCall == [op |-> "none", args |-> <<>>, delegate |-> NULL, dargs |-> <<>>,
           dcalls |-> 0, dret |-> 0, ret |-> 0, status |-> "none"]

\* The locals of a thread that is in no call.
NoFrame == [w |-> "none", fn |-> NULL, path |-> NULL, flags |-> <<>>,
            fd |-> 0, buf |-> <<>>, req |-> <<>>, off |-> <<>>,
            hit |-> FALSE]

\* ------------------------------------------------------------ the program
Init ==
    /\ envFile \in FileEnvValues
    /\ envOffset \in OffsetEnvValues
    /\ offsetfd = -3
    /\ offsetval = 0
    /\ offsetpath = NULL
    /\ original = [w \in Wrappers |-> NULL]
    /\ crashed = FALSE
    /\ last = NoCall
    /\ envReads = 0
    /\ lookups = [w \in Wrappers |-> 0]
    /\ called = {}
    /\ matches = <<>>
    /\ pc = [t \in Threads |-> "idle"]
    /\ frame = [t \in Threads |-> NoFrame]
    /\ firstOpen = "none"

getenv(name) ==
    CASE name = "OFFSETPRELOAD_FILE" -> envFile
      [] name = "OFFSETPRELOAD_OFFSET" -> envOffset

\* The cached lookup at the head of each wrapper: the pointers dlsym may
\* leave in the wrapper's static, and whether dlsym runs at all.
NeedsLookup(w) == original[w] = NULL
Resolve(w) == IF NeedsLookup(w) THEN dlsym(w) ELSE {original[w]}

\* A null pointer skipped silently instead of called.
Faults_never(fn) == FALSE

\* The call `(*fn)(...)' through a static that dlsym left NULL jumps to
\* address 0: the process dies of the fault and the call never returns.
Faults(fn) == fn = NULL

\* pread64 with the offset assigned rather than added.
pread64_offset_assign(fd, offset) ==
    IF offsetfd = fd THEN SignExtend(offsetval) ELSE offset

\* offset after `if (offsetfd == fd) offset += offsetval;' of pread64.
pread64_offset(fd, offset) ==
    IF offsetfd = fd THEN Add64(offset, SignExtend(offsetval)) ELSE offset

\* A write that forgets the offset.
pwrite64_offset_plain(fd, offset) == offset

\* offset after `if (offsetfd == fd) offset += offsetval;' of pwrite64.
pwrite64_offset(fd, offset) ==
    IF offsetfd = fd THEN Add64(offset, SignExtend(offsetval)) ELSE offset

TransferOffset(w, fd, offset) ==
    IF w = "pread64" THEN pread64_offset(fd, offset)
                     ELSE pwrite64_offset(fd, offset)

\* A transfer that reports a failed delegate as zero bytes.
TransferReturn_swallow(dret) == IF dret < 0 THEN 0 ELSE dret

\* The value a transfer wrapper returns, given what its delegate returned.
TransferReturn(dret) == dret

\* A transfer that reads the configuration when it finds it unresolved.
TransferFrame_resolving ==
    IF offsetfd = -3
    THEN /\ offsetfd' = -2
         /\ offsetpath' = envFile
         /\ offsetval' \in (IF envOffset # NULL THEN atoi(envOffset)
                                                ELSE {offsetval})
         /\ envReads' = Bump(envReads)
    ELSE UNCHANGED <<offsetfd, offsetval, offsetpath, envReads>>

\* pread64 and pwrite64 assign none of offsetfd, offsetval, offsetpath and
\* never read the environment.
TransferFrame == UNCHANGED <<offsetfd, offsetval, offsetpath, envReads>>

\* The body shared by pread64 and pwrite64 (they differ in the static
\* pointer, the symbol name and the offset statement).
Transfer(w, fd, buf, offset) ==
    /\ ~crashed
    /\ \E fn \in Resolve(w) :
          /\ original' = [original EXCEPT ![w] = fn]
          /\ lookups' = [lookups EXCEPT
                            ![w] = IF NeedsLookup(w) THEN Bump(@) ELSE @]
          /\ called' = called \cup {w}
          /\ IF Faults(fn)
             THEN /\ crashed' = TRUE
                  /\ last' = [NoCall EXCEPT !.op = w,
                                 !.args = <<fd, buf[1], buf[2], offset>>,
                                 !.status = "crashed"]
             ELSE /\ crashed' = FALSE
                  /\ \E dret \in TransferResults :
                        last' = [op |-> w,
                                 args |-> <<fd, buf[1], buf[2], offset>>,
                                 delegate |-> fn,
                                 dargs |-> <<fd, buf[1], buf[2],
                                             TransferOffset(w, fd, offset)>>,
                                 dcalls |-> 1,
                                 dret |-> dret,
                                 ret |-> TransferReturn(dret),
                                 status |-> "returned"]
    /\ TransferFrame
    /\ UNCHANGED <<envFile, envOffset, matches, pc, frame, firstOpen>>

pread64 ==
    \E fd \in FdArgs, buf \in BufArgs, offset \in OffsetArgs :
        Transfer("pread64", fd, buf, offset)

pwrite64 ==
    \E fd \in FdArgs, buf \in BufArgs, offset \in OffsetArgs :
        Transfer("pwrite64", fd, buf, offset)

\* The configuration test taking every negative tracker for unresolved.
Unresolved_negative == offsetfd < 0

\* `if (offsetfd == -3)': configuration is still to be read.
Unresolved == offsetfd = -3

\* The offset left at an arbitrary value when the variable is absent.
ParsedOffsets_unset(valenv) ==
    IF valenv # NULL THEN atoi(valenv) ELSE {1}

\* offsetval after `if (valenv != NULL) offsetval = atoi(valenv);'.
ParsedOffsets(valenv) ==
    IF valenv # NULL THEN atoi(valenv) ELSE {offsetval}

\* The match test without the path comparison.
Track_anypath(cfg, path, fd) ==
    IF fd >= 0 /\ cfg.path # NULL
    THEN [cfg EXCEPT !.fd = fd] ELSE cfg

\* The match test forgetting the descriptor when the open does not match.
Track_clear(cfg, path, fd) ==
    IF fd >= 0 /\ cfg.path # NULL /\ strcmp(cfg.path, path) = 0
    THEN [cfg EXCEPT !.fd = fd] ELSE [cfg EXCEPT !.fd = -2]

\* The match test also remembering the path it was given.
Track_path(cfg, path, fd) ==
    IF fd >= 0 /\ cfg.path # NULL /\ strcmp(cfg.path, path) = 0
    THEN [cfg EXCEPT !.fd = fd] ELSE [cfg EXCEPT !.path = path]

\* The match test keeping the first match instead of the latest.
Track_first(cfg, path, fd) ==
    IF fd >= 0 /\ cfg.path # NULL /\ strcmp(cfg.path, path) = 0 /\ cfg.fd < 0
    THEN [cfg EXCEPT !.fd = fd] ELSE cfg

\* The statics after the match test that follows the original open
\* (`if (fd >= 0) if (offsetpath != NULL && strcmp(...) == 0) offsetfd = fd;');
\* cfg holds them as the configuration block left them.
Track(cfg, path, fd) ==
    IF fd >= 0 /\ cfg.path # NULL /\ strcmp(cfg.path, path) = 0
    THEN [cfg EXCEPT !.fd = fd] ELSE cfg

\* An open that reports a failed original open as descriptor 0.
OpenReturn_swallow(fd) == IF fd < 0 THEN 0 ELSE fd

\* The value ___open64 returns, given what the original open returned.
OpenReturn(fd) == fd

\* The history of successful opens of the configured target, last two kept.
Remember(path, fd) ==
    IF fd >= 0 /\ envFile # NULL /\ path = envFile
    THEN IF matches = <<>> THEN <<fd>> ELSE <<matches[Len(matches)], fd>>
    ELSE matches

\* ___open64, entered from wrapper w with the pointer fn it resolved.
___open64(w, fn, path, flags) ==
    \E val \in (IF Unresolved THEN ParsedOffsets(getenv("OFFSETPRELOAD_OFFSET"))
                              ELSE {offsetval}) :
      LET cfg0 == IF Unresolved
                  THEN [fd |-> -2, path |-> getenv("OFFSETPRELOAD_FILE"),
                        val |-> val]
                  ELSE [fd |-> offsetfd, path |-> offsetpath, val |-> val]
      IN  /\ envReads' = IF Unresolved THEN Bump(envReads) ELSE envReads
          /\ IF Faults(fn)
             THEN /\ crashed' = TRUE
                  /\ offsetfd' = cfg0.fd
                  /\ offsetpath' = cfg0.path
                  /\ offsetval' = cfg0.val
                  /\ matches' = matches
                  /\ last' = [NoCall EXCEPT !.op = w,
                                 !.args = <<path, flags>>,
                                 !.status = "crashed"]
             ELSE /\ crashed' = FALSE
                  /\ \E fd \in OpenResults :
                        LET cfg1 == Track(cfg0, path, fd)
                        IN  /\ offsetfd' = cfg1.fd
                            /\ offsetpath' = cfg1.path
                            /\ offsetval' = cfg1.val
                            /\ matches' = Remember(path, fd)
                            /\ last' = [op |-> w,
                                        args |-> <<path, flags>>,
                                        delegate |-> fn,
                                        dargs |-> <<path, flags>>,
                                        dcalls |-> 1,
                                        dret |-> fd,
                                        ret |-> OpenReturn(fd),
                                        status |-> "returned"]

\* firstOpen after an open call that ran from entry to return (or fault)
\* with no other call in between.
FirstOpenAlone ==
    IF firstOpen = "none" THEN (IF crashed' THEN "running" ELSE "returned")
    ELSE firstOpen

\* __open64_2 calling its original directly, past the common ___open64.
OpenWrapper_direct(w, path, flags) ==
    /\ ~crashed
    /\ \E fn \in Resolve(w) :
          /\ original' = [original EXCEPT ![w] = fn]
          /\ lookups' = [lookups EXCEPT
                            ![w] = IF NeedsLookup(w) THEN Bump(@) ELSE @]
          /\ called' = called \cup {w}
          /\ IF w = "open64"
             THEN ___open64(w, fn, path, flags)
             ELSE /\ UNCHANGED <<offsetfd, offsetpath, offsetval, envReads>>
                  /\ IF Faults(fn)
                     THEN /\ crashed' = TRUE
                          /\ matches' = matches
                          /\ last' = [NoCall EXCEPT !.op = w,
                                         !.args = <<path, flags>>,
                                         !.status = "crashed"]
                     ELSE /\ crashed' = FALSE
                          /\ \E fd \in OpenResults :
                                /\ matches' = Remember(path, fd)
                                /\ last' = [op |-> w,
                                            args |-> <<path, flags>>,
                                            delegate |-> fn,
                                            dargs |-> <<path, flags>>,
                                            dcalls |-> 1,
                                            dret |-> fd,
                                            ret |-> OpenReturn(fd),
                                            status |-> "returned"]
    /\ firstOpen' = FirstOpenAlone
    /\ UNCHANGED <<envFile, envOffset, pc, frame>>

\* The head of __open64_2 and of open64: the cached lookup, then ___open64.
OpenWrapper(w, path, flags) ==
    /\ ~crashed
    /\ \E fn \in Resolve(w) :
          /\ original' = [original EXCEPT ![w] = fn]
          /\ lookups' = [lookups EXCEPT
                            ![w] = IF NeedsLookup(w) THEN Bump(@) ELSE @]
          /\ called' = called \cup {w}
          /\ ___open64(w, fn, path, flags)
    /\ firstOpen' = FirstOpenAlone
    /\ UNCHANGED <<envFile, envOffset, pc, frame>>

__open64_2 ==
    \E path \in PathArgs, flags \in FlagArgs :
        OpenWrapper("__open64_2", path, flags)

open64 ==
    \E path \in PathArgs, flags \in FlagArgs :
        OpenWrapper("open64", path, flags)

Next == pread64 \/ pwrite64 \/ __open64_2 \/ open64

Spec == Init /\ [][Next]_vars

\* --------------------------------------------- the program, interleaved
\* The same four wrappers called by several threads.  Nothing in the source
\* synchronises them, so a step is one access to the shared statics; the
\* labels name the statement a thread is about to execute.

Goto(t, label) == pc' = [pc EXCEPT ![t] = label]

\* The record of a call of thread t that reached its original.
Returned(t, dargs, dret) ==
    [op |-> frame[t].w,
     args |-> IF frame[t].w \in Opens
              THEN <<frame[t].path, frame[t].flags>>
              ELSE <<frame[t].fd, frame[t].buf[1], frame[t].buf[2],
                     frame[t].req>>,
     delegate |-> frame[t].fn, dargs |-> dargs, dcalls |-> 1,
     dret |-> dret, ret |-> dret, status |-> "returned"]

\* The call through a NULL static, made by thread t.
ThreadFault(t) ==
    /\ crashed' = TRUE
    /\ last' = [NoCall EXCEPT !.op = frame[t].w, !.status = "crashed"]

\* Entry into a wrapper: the cached lookup at its head (lines 30-33, 43-46,
\* 79-82, 89-92), with the arguments of the call in the frame.
call_enter(t) ==
    /\ ~crashed /\ pc[t] = "idle"
    /\ \E w \in Wrappers : \E fn \in Resolve(w) :
          /\ original' = [original EXCEPT ![w] = fn]
          /\ lookups' = [lookups EXCEPT
                            ![w] = IF NeedsLookup(w) THEN Bump(@) ELSE @]
          /\ called' = called \cup {w}
          /\ IF w \in Opens
             THEN /\ \E path \in ThreadPaths, flags \in ThreadFlags :
                        frame' = [frame EXCEPT ![t] =
                                    [NoFrame EXCEPT !.w = w, !.fn = fn,
                                        !.path = path, !.flags = flags]]
                  /\ Goto(t, "test")
                  /\ firstOpen' =
                        CASE firstOpen = "none" -> "running"
                          [] firstOpen = "running" -> "raced"
                          [] firstOpen = "returned"
                               /\ \E u \in Threads : frame[u].w \in Opens
                                -> "concurrent"
                          [] OTHER -> firstOpen
             ELSE /\ \E fd \in ThreadFds, buf \in ThreadBufs,
                        req \in ThreadOffsets :
                        frame' = [frame EXCEPT ![t] =
                                    [NoFrame EXCEPT !.w = w, !.fn = fn,
                                        !.fd = fd, !.buf = buf,
                                        !.req = req, !.off = req]]
                  /\ Goto(t, "gate")
                  /\ firstOpen' = firstOpen
    /\ UNCHANGED <<envFile, envOffset, offsetfd, offsetval, offsetpath,
                   crashed, last, envReads, matches>>

\* `if (offsetfd == fd)' of pread64/pwrite64 (lines 35, 48).
transfer_gate(t) ==
    /\ ~crashed /\ pc[t] = "gate"
    /\ IF offsetfd = frame[t].fd
       THEN /\ frame' = [frame EXCEPT ![t].hit = TRUE]
            /\ Goto(t, "shift")
       ELSE /\ frame' = frame
            /\ Goto(t, "call")
    /\ UNCHANGED <<envFile, envOffset, offsetfd, offsetval, offsetpath,
                   original, crashed, last, envReads, lookups, called,
                   matches, firstOpen>>

\* `offset += offsetval' of pread64/pwrite64 (lines 36, 49).
transfer_shift(t) ==
    /\ ~crashed /\ pc[t] = "shift"
    /\ frame' = [frame EXCEPT ![t].off = Add64(@, SignExtend(offsetval))]
    /\ Goto(t, "call")
    /\ UNCHANGED <<envFile, envOffset, offsetfd, offsetval, offsetpath,
                   original, crashed, last, envReads, lookups, called,
                   matches, firstOpen>>

\* `return (*original)(fd, buf, count, offset)' (lines 39, 52).
transfer_call(t) ==
    /\ ~crashed /\ pc[t] = "call"
    /\ IF Faults(frame[t].fn)
       THEN /\ ThreadFault(t)
            /\ UNCHANGED <<pc, frame>>
       ELSE /\ crashed' = FALSE
            /\ \E dret \in ThreadTransferResults :
                  last' = Returned(t, <<frame[t].fd, frame[t].buf[1],
                                        frame[t].buf[2], frame[t].off>>, dret)
            /\ frame' = [frame EXCEPT ![t] = NoFrame]
            /\ Goto(t, "idle")
    /\ UNCHANGED <<envFile, envOffset, offsetfd, offsetval, offsetpath,
                   original, envReads, lookups, called, matches, firstOpen>>

\* `if (offsetfd == -3)' of ___open64 (line 57).
open_test(t) ==
    /\ ~crashed /\ pc[t] = "test"
    /\ IF Unresolved THEN Goto(t, "mark") ELSE Goto(t, "open")
    /\ UNCHANGED <<envFile, envOffset, offsetfd, offsetval, offsetpath,
                   original, crashed, last, envReads, lookups, called,
                   matches, frame, firstOpen>>

\* `offsetfd = -2' (line 58).
open_mark(t) ==
    /\ ~crashed /\ pc[t] = "mark"
    /\ offsetfd' = -2
    /\ Goto(t, "getpath")
    /\ UNCHANGED <<envFile, envOffset, offsetval, offsetpath, original,
                   crashed, last, envReads, lookups, called, matches, frame,
                   firstOpen>>

\* `offsetpath = getenv("OFFSETPRELOAD_FILE")' (line 59).
open_getpath(t) ==
    /\ ~crashed /\ pc[t] = "getpath"
    /\ offsetpath' = getenv("OFFSETPRELOAD_FILE")
    /\ envReads' = Bump(envReads)
    /\ Goto(t, "getval")
    /\ UNCHANGED <<envFile, envOffset, offsetfd, offsetval, original,
                   crashed, last, lookups, called, matches, frame, firstOpen>>

\* A configuration block that leaves offsetval alone.
open_getval_skip(t) ==
    /\ ~crashed /\ pc[t] = "getval"
    /\ Goto(t, "open")
    /\ UNCHANGED <<envFile, envOffset, offsetfd, offsetval, offsetpath,
                   original, crashed, last, envReads, lookups, called,
                   matches, frame, firstOpen>>

\* `valenv = getenv(...); if (valenv != NULL) offsetval = atoi(valenv);'
\* (lines 60-63).
open_getval(t) ==
    /\ ~crashed /\ pc[t] = "getval"
    /\ offsetval' \in ParsedOffsets(getenv("OFFSETPRELOAD_OFFSET"))
    /\ Goto(t, "open")
    /\ UNCHANGED <<envFile, envOffset, offsetfd, offsetpath, original,
                   crashed, last, envReads, lookups, called, matches, frame,
                   firstOpen>>

\* `int fd = (*original_open64)(path, flags1, flags2, flags3)' (line 66).
open_call(t) ==
    /\ ~crashed /\ pc[t] = "open"
    /\ IF Faults(frame[t].fn)
       THEN /\ ThreadFault(t)
            /\ UNCHANGED <<pc, frame, matches>>
       ELSE /\ \E fd \in ThreadOpenResults :
                  /\ frame' = [frame EXCEPT ![t].fd = fd]
                  /\ matches' = Remember(frame[t].path, fd)
            /\ Goto(t, "match")
            /\ UNCHANGED <<crashed, last>>
    /\ UNCHANGED <<envFile, envOffset, offsetfd, offsetval, offsetpath,
                   original, envReads, lookups, called, firstOpen>>

\* The return of ___open64 and of the wrapper around it (lines 74, 83, 93).
ThreadOpenReturn(t) ==
    /\ last' = Returned(t, <<frame[t].path, frame[t].flags>>, frame[t].fd)
    /\ frame' = [frame EXCEPT ![t] = NoFrame]
    /\ Goto(t, "idle")
    /\ firstOpen' = IF firstOpen = "running" THEN "returned" ELSE firstOpen

\* `if (fd >= 0) if ((offsetpath != NULL) && (strcmp(offsetpath, path) == 0))'
\* (lines 68-69); without a match the call returns.
open_match(t) ==
    /\ ~crashed /\ pc[t] = "match"
    /\ IF /\ frame[t].fd >= 0
          /\ offsetpath # NULL
          /\ strcmp(offsetpath, frame[t].path) = 0
       THEN /\ frame' = [frame EXCEPT ![t].hit = TRUE]
            /\ Goto(t, "track")
            /\ UNCHANGED <<last, firstOpen>>
       ELSE ThreadOpenReturn(t)
    /\ UNCHANGED <<envFile, envOffset, offsetfd, offsetval, offsetpath,
                   original, crashed, envReads, lookups, called, matches>>

\* A match that returns without recording the descriptor.
open_track_lost(t) ==
    /\ ~crashed /\ pc[t] = "track"
    /\ ThreadOpenReturn(t)
    /\ UNCHANGED <<envFile, envOffset, offsetfd, offsetval, offsetpath,
                   original, crashed, envReads, lookups, called, matches>>

\* `offsetfd = fd' (line 70), then the return.
open_track(t) ==
    /\ ~crashed /\ pc[t] = "track"
    /\ offsetfd' = frame[t].fd
    /\ ThreadOpenReturn(t)
    /\ UNCHANGED <<envFile, envOffset, offsetval, offsetpath, original,
                   crashed, envReads, lookups, called, matches>>

ThreadInit ==
    /\ Init
    /\ envFile \in ThreadFileEnv
    /\ envOffset \in ThreadOffsetEnv

ThreadNext ==
    \E t \in Threads :
        \/ call_enter(t)
        \/ transfer_gate(t)
        \/ transfer_shift(t)
        \/ transfer_call(t)
        \/ open_test(t)
        \/ open_mark(t)
        \/ open_getpath(t)
        \/ open_getval(t)
        \/ open_call(t)
        \/ open_match(t)
        \/ open_track(t)

ThreadSpec == ThreadInit /\ [][ThreadNext]_vars

\* ------------------------------------------------------------ properties
\* The last call was a pread64/pwrite64 that reached its delegate.
Transferred == last.op \in Transfers /\ last.status = "returned"
\* The last call was an open64/__open64_2 that reached its delegate.
Opened == last.op \in Opens /\ last.status = "returned"

ArgFd     == last.args[1]
Requested == last.args[4]
Delegated == last.dargs[4]

\* The tracker holds a concrete descriptor.
Tracking == offsetfd >= 0
\* requested + offset value, on 64 bits.
Shifted(r) == Add64(r, SignExtend(offsetval))

\* C1: while the tracker holds a concrete descriptor d >= 0, a pread64 or
\* pwrite64 on d with requested offset r hands its delegate exactly
\* r + offsetval, for every r (zero and negative r included).
C1_OffsetInjection ==
    /\ Transferred /\ Tracking /\ ArgFd = offsetfd
          => last.dcalls = 1 /\ Delegated = Shifted(Requested)
    /\ Tracking =>
          \A r \in OffsetArgs :
              /\ pread64_offset(offsetfd, r) = Shifted(r)
              /\ pwrite64_offset(offsetfd, r) = Shifted(r)

\* Target /img.bin, offset 1024, tracked descriptor 3: a read at 2048 was
\* delegated at 3072.
C1_Witness ==
    /\ Transferred /\ last.op = "pread64"
    /\ offsetpath = "/img.bin" /\ offsetval = 1024
    /\ offsetfd = 3 /\ ArgFd = 3
    /\ Requested = SignExtend(2048) /\ Delegated = SignExtend(3072)

\* C2: pread64/pwrite64 add the offset if and only if the tracker holds a
\* concrete descriptor >= 0 equal to the fd argument; in the unresolved and
\* the no-match state the delegate receives the requested offset, for every
\* fd, negative ones included.
C2_IdentityGate ==
    Transferred =>
        Delegated = IF Tracking /\ ArgFd = offsetfd THEN Shifted(Requested)
                                                    ELSE Requested

\* C3: with OFFSETPRELOAD_FILE unset the tracker never holds a descriptor
\* and every pread64/pwrite64 delegates with the requested offset, whatever
\* OFFSETPRELOAD_OFFSET is and whatever the descriptor argument.
C3_DisabledByDefault ==
    envFile = NULL =>
        /\ ~Tracking
        /\ Transferred => Delegated = Requested

\* Every descriptor argument some transfer would shift in this state.
ShiftedFds ==
    { fd \in FdArgs : \E r \in OffsetArgs :
          pread64_offset(fd, r) # r \/ pwrite64_offset(fd, r) # r }

\* C4: after two successful opens of the target that returned distinct
\* descriptors a then b, the tracker holds b, transfers on b are shifted,
\* transfers on a are delegated unchanged, and never is more than one
\* descriptor value shifted.
C4_SingleSlot ==
    /\ Len(matches) = 2 /\ matches[1] # matches[2] =>
          /\ offsetfd = matches[2]
          /\ \A r \in OffsetArgs :
                /\ pread64_offset(matches[2], r) = Shifted(r)
                /\ pwrite64_offset(matches[2], r) = Shifted(r)
                /\ pread64_offset(matches[1], r) = r
                /\ pwrite64_offset(matches[1], r) = r
          /\ Transferred /\ ArgFd = matches[1] => Delegated = Requested
          /\ Transferred /\ ArgFd = matches[2] => Delegated = Shifted(Requested)
    /\ Cardinality(ShiftedFds) <= 1

\* Target opened as 0 and then as 3; a write on 0 went out unshifted although
\* the offset is 1024.
C4_Witness ==
    /\ matches = <<0, 3>> /\ offsetfd = 3 /\ offsetval = 1024
    /\ Transferred /\ last.op = "pwrite64" /\ ArgFd = 0
    /\ Delegated = Requested

\* The characters of s from the first that is no blank.
Unblanked(s) == SubSeq(s, SkipSpaces(s, 1), Len(s))
\* s without one leading sign.
Unsigned(s) == IF s # <<>> /\ s[1] \in {"+", "-"} THEN Tail(s) ELSE s
\* s is a base-10 integer: blanks, an optional sign, digits, nothing else.
NumericString(s) ==
    LET d == Unsigned(Unblanked(s))
    IN  d # <<>> /\ \A i \in 1..Len(d) : d[i] \in Digits
\* s starts, after blanks and an optional sign, with a digit.
LeadingDigit(s) ==
    LET d == Unsigned(Unblanked(s))
    IN  d # <<>> /\ d[1] \in Digits

\* The integer a numeric string writes, on 64 bits.
DecimalValue(s) ==
    LET u == Unblanked(s)
        RECURSIVE Value(_)
        Value(d) == IF d = <<>> THEN <<0, 0, 0, 0>>
                    ELSE MulAdd10(Value(SubSeq(d, 1, Len(d) - 1)),
                                  DigitVal(d[Len(d)]))
    IN  IF u[1] = "-" THEN Neg64(Value(Unsigned(u))) ELSE Value(Unsigned(u))

\* C5: the offset applied to matched I/O is the base-10 integer written in
\* OFFSETPRELOAD_OFFSET, for every value of a 64-bit off_t (2^31 and above
\* included): nothing narrows it before it is added to the requested offset.
C5_OffsetWidth ==
    envOffset # NULL /\ NumericString(envOffset) =>
        (Transferred /\ Tracking /\ ArgFd = offsetfd
            => Delegated = Add64(Requested, DecimalValue(envOffset)))

\* A crash comes from a missing original only.
NoConfigError == crashed => last.status = "crashed" /\ original[last.op] = NULL
\* The tracker follows the successful opens of the target.
TracksTarget == matches # <<>> => offsetfd = matches[Len(matches)]

\* C6 as stated: with OFFSETPRELOAD_OFFSET absent or not a number, resolution
\* raises no error, the offset is 0, transfers on the tracked descriptor
\* delegate the requested offset, and the target is still tracked.
C6_NonNumericIsZero ==
    ~Unresolved /\ (envOffset = NULL \/ ~NumericString(envOffset)) =>
        /\ NoConfigError
        /\ offsetval = 0
        /\ Transferred /\ ArgFd = offsetfd => Delegated = Requested
        /\ TracksTarget

\* C6 amended: with OFFSETPRELOAD_OFFSET absent or not starting (after
\* blanks and an optional sign) with a digit, resolution raises no error, the
\* offset is 0, transfers on the tracked descriptor delegate the requested
\* offset, and the target is still tracked.
C6_NoLeadingDigitIsZero ==
    ~Unresolved /\ (envOffset = NULL \/ ~LeadingDigit(envOffset)) =>
        /\ NoConfigError
        /\ offsetval = 0
        /\ Transferred /\ ArgFd = offsetfd => Delegated = Requested
        /\ TracksTarget

\* OFFSETPRELOAD_OFFSET absent, the target tracked as 3, a read on 3 at 2048
\* delegated at 2048.
C6_Witness ==
    /\ envOffset = NULL /\ offsetval = 0
    /\ matches # <<>> /\ offsetfd = 3
    /\ Transferred /\ ArgFd = 3
    /\ Requested = SignExtend(2048) /\ Delegated = SignExtend(2048)

\* C7: the environment is read exactly once, by the first open through
\* either variant, and each of the four originals is looked up exactly once,
\* by the first call of its own wrapper, whatever the other wrappers did.
C7_ResolveOnce ==
    /\ envReads = IF called \cap Opens # {} THEN 1 ELSE 0
    /\ \A w \in Wrappers : lookups[w] = IF w \in called THEN 1 ELSE 0
    /\ \A w \in Wrappers : original[w] \in {NULL, NextSymbol(w)}

\* Two opens went through open64 alone and a read followed, while
\* __open64_2 and pwrite64 have not been called.
C7_Witness ==
    /\ Len(matches) = 2 /\ called = {"open64", "pread64"}
    /\ Transferred
    /\ envReads = 1 /\ lookups["open64"] = 1 /\ lookups["__open64_2"] = 0

\* C8: an open64/__open64_2 call invokes its original once, with the path
\* and the flags it was given, and returns what the original returned,
\* matching path or not and whatever the tracker holds.
C8_OpenPassthrough ==
    Opened =>
        /\ last.dcalls = 1
        /\ last.delegate = NextSymbol(last.op)
        /\ last.dargs = last.args
        /\ last.ret = last.dret

\* With descriptor 3 tracked, an open of the target failed and the caller
\* got the -1 of the original.
C8_Witness ==
    /\ Opened /\ last.args[1] = "/img.bin" /\ offsetpath = "/img.bin"
    /\ last.dret = -1 /\ last.ret = -1 /\ offsetfd = 3

\* C9: a pread64/pwrite64 call invokes its original once, with the
\* descriptor, buffer and count it was given, and returns what the original
\* returned, short counts and errors included, shifted or not.
C9_TransferPassthrough ==
    Transferred =>
        /\ last.dcalls = 1
        /\ last.delegate = NextSymbol(last.op)
        /\ last.dargs[1] = last.args[1]
        /\ last.dargs[2] = last.args[2]
        /\ last.dargs[3] = last.args[3]
        /\ last.ret = last.dret

\* A shifted write on the tracked descriptor failed and the caller got the
\* -1 of the original.
C9_Witness ==
    /\ Transferred /\ last.op = "pwrite64" /\ offsetfd = 3 /\ ArgFd = 3
    /\ offsetval = 1024 /\ Delegated # Requested
    /\ last.dret = -1 /\ last.ret = -1

\* C10: once the configuration is resolved, no open, read or write changes
\* the target path or the offset value; of the three, only the tracker
\* changes.
C10_ConfigImmutable ==
    [][~Unresolved => offsetpath' = offsetpath /\ offsetval' = offsetval]_vars

\* The tracker moved from 0 to 3 after resolution, path and offset in place.
C10_Witness ==
    /\ matches = <<0, 3>> /\ offsetfd = 3
    /\ offsetpath = envFile /\ offsetval = 1024

\* C11: a failed lookup of an original is fatal: the call that made it ends
\* in the crashed state without a delegate call and without a return value,
\* nothing runs after it, and a call that returns has invoked an original.
C11_LookupFailureFatal ==
    /\ [](/\ \A w \in called : original[w] = NULL => crashed
          /\ last.status = "crashed" =>
                crashed /\ last.dcalls = 0 /\ last.delegate = NULL
                        /\ original[last.op] = NULL
          /\ last.status = "returned" =>
                ~crashed /\ last.dcalls = 1 /\ last.delegate # NULL)
    /\ [][~crashed]_vars

\* The lookup of pread64 failed after an open had succeeded: the process is
\* down and the read never reached a delegate.
C11_Witness ==
    /\ crashed /\ last.op = "pread64" /\ last.status = "crashed"
    /\ original["pread64"] = NULL /\ original["open64"] # NULL
    /\ last.dcalls = 0

\* The step is an open that reached its original.
OpenStep == last'.op \in Opens /\ last'.status = "returned"
\* The step is a pread64/pwrite64 call (returned or not).
TransferStep == last'.op \in Transfers

\* C12: once the configuration is resolved, an open whose path is not
\* exactly the target path, or whose original returns a negative value,
\* leaves the tracker as it was, also when the open returns the very number
\* that is tracked, which then stays shifted.
C12_NoMatchKeepsTracker ==
    [][ OpenStep /\ ~Unresolved
          /\ (last'.args[1] # offsetpath \/ last'.dret < 0)
        => /\ offsetfd' = offsetfd
           /\ \A r \in OffsetArgs :
                 (pread64_offset(offsetfd, r))' = pread64_offset(offsetfd, r)
      ]_vars

\* Descriptor 3 is tracked and shifted by 1024; an open of //img.bin (the
\* same file, another string) returned 3 as well.
C12_Witness ==
    /\ Opened /\ offsetpath = "/img.bin" /\ last.args[1] = "//img.bin"
    /\ last.dret = 3 /\ offsetfd = 3 /\ matches = <<0, 3>>
    /\ offsetval = 1024
    /\ pread64_offset(3, SignExtend(0)) = SignExtend(1024)

\* C13: pread64 and pwrite64 change none of tracker, target path and offset
\* value, in any state, and a transfer before the first open leaves the
\* configuration unresolved and the environment unread.
C13_TransfersKeepState ==
    /\ [][ TransferStep =>
             /\ offsetfd' = offsetfd
             /\ offsetpath' = offsetpath
             /\ offsetval' = offsetval
             /\ envReads' = envReads ]_vars
    /\ [](called \cap Opens = {} => Unresolved /\ envReads = 0)

\* Both transfers ran before any open: still unresolved.
C13_Witness ==
    /\ called = Transfers /\ Transferred
    /\ offsetfd = -3 /\ offsetpath = NULL /\ envReads = 0

\* C14: in every state, for every descriptor and requested offset, pwrite64
\* hands its original the offset pread64 hands its own.
C14_WriteLikeRead ==
    /\ \A fd \in FdArgs, r \in OffsetArgs :
          pwrite64_offset(fd, r) = pread64_offset(fd, r)
    /\ Transferred =>
          Delegated = pread64_offset(ArgFd, Requested)

\* A write on the tracked descriptor 3 at 2048 went out at 3072.
C14_Witness ==
    /\ Transferred /\ last.op = "pwrite64" /\ offsetfd = 3 /\ ArgFd = 3
    /\ offsetval = 1024
    /\ Requested = SignExtend(2048) /\ Delegated = SignExtend(3072)

\* What an open that reached its original leaves in the statics, whichever
\* variant it came through.
AfterOpenFd(path, fd) ==
    LET target == IF Unresolved THEN envFile ELSE offsetpath
    IN  IF fd >= 0 /\ target # NULL /\ path = target THEN fd
        ELSE IF Unresolved THEN -2 ELSE offsetfd

\* C15: open64 and __open64_2 leave the same tracker and configuration for
\* the same state, path and result; one resolution serves both; and a
\* descriptor tracked through either is shifted by the transfers.
C15_VariantsAlike ==
    /\ [][ OpenStep =>
             /\ offsetfd' = AfterOpenFd(last'.args[1], last'.dret)
             /\ offsetpath' = IF Unresolved THEN envFile ELSE offsetpath
             /\ ~Unresolved => offsetval' = offsetval
             /\ envReads' = IF Unresolved THEN 1 ELSE envReads ]_vars
    /\ [](/\ envReads <= 1
          /\ Opened /\ last.dret >= 0 /\ offsetpath # NULL
                /\ last.args[1] = offsetpath =>
                /\ offsetfd = last.dret
                /\ \A r \in OffsetArgs :
                       /\ pread64_offset(last.dret, r) = Shifted(r)
                       /\ pwrite64_offset(last.dret, r) = Shifted(r))

\* Configuration came through open64, then __open64_2 opened the target as
\* 3, which is now tracked, with the environment read once.
C15_Witness ==
    /\ called = Opens /\ Opened /\ last.op = "__open64_2"
    /\ matches = <<0, 3>> /\ offsetfd = 3 /\ envReads = 1
    /\ lookups["open64"] = 1 /\ lookups["__open64_2"] = 1

\* C16: after the first open the tracker is never unresolved again, and once
\* it holds a descriptor >= 0 it holds one ever after: no failed open,
\* non-matching open, read or write clears it.
C16_TrackerMonotone ==
    /\ [][ /\ ~Unresolved => ~Unresolved'
           /\ Tracking => Tracking' ]_vars
    /\ [](called \cap Opens # {} => ~Unresolved)

\* Descriptor 3 tracked; a failed open of the target came after it, and 3 is
\* still tracked.
C16_Witness ==
    /\ offsetfd = 3 /\ matches = <<3>> /\ Opened
    /\ last.args[1] = "/img.bin" /\ last.dret = -1

\* The values OFFSETPRELOAD_OFFSET configures.
ConfiguredOffsets == IF envOffset = NULL THEN {0} ELSE atoi(envOffset)
\* Thread t is about to call its original with an offset it shifted.
AboutToShiftedCall(t) == pc[t] = "call" /\ frame[t].hit
\* The offsets a shifted call may carry once the offset is configured.
ConfiguredShift(t) ==
    { Add64(frame[t].req, SignExtend(v)) : v \in ConfiguredOffsets }
\* Some thread has assigned offsetpath and not yet offsetval (lines 59-63).
HalfConfigured == \E t \in Threads : pc[t] = "getval"

\* C17 as stated: with the statements of several threads interleaved,
\* whenever the tracker holds a descriptor >= 0 the offset value is the
\* configured one, so no transfer on the tracked descriptor goes out with
\* an offset not yet resolved.
C17_OffsetReadyWhenTracked ==
    /\ Tracking => offsetval \in ConfiguredOffsets
    /\ \A t \in Threads :
          AboutToShiftedCall(t) => frame[t].off \in ConfiguredShift(t)

\* C17 amended: the same whenever no thread stands between the assignment
\* of offsetpath and the assignment of offsetval, and for every transfer
\* that adds the offset at such a moment.
C17_OffsetReadyOutsideConfig ==
    /\ [](Tracking /\ ~HalfConfigured => offsetval \in ConfiguredOffsets)
    /\ [][ \A t \in Threads :
             pc[t] = "shift" /\ pc'[t] = "call" /\ ~HalfConfigured
                => (frame[t].off)' \in ConfiguredShift(t) ]_vars

\* Two opens raced through the configuration; with both out of it, 3 is
\* tracked, the offset is 1024, and a read on 3 is about to go out at 1024.
C17_Witness ==
    /\ firstOpen = "raced" /\ offsetfd = 3 /\ offsetval = 1024
    /\ ~HalfConfigured
    /\ \E t \in Threads :
          /\ AboutToShiftedCall(t)
          /\ frame[t].off = SignExtend(1024)

\* No thread is inside an open call.
OpensReturned == \A t \in Threads : frame[t].w \notin Opens

\* C18 as stated: with opens issued concurrently, if exactly one open
\* succeeded on the target then, once all opens have returned, the tracker
\* holds the descriptor that open returned.
C18_MatchingOpenTracked ==
    OpensReturned /\ ~crashed /\ Len(matches) = 1 => offsetfd = matches[1]

\* C18 amended: the same, provided the first open call of the process
\* returned before any other open call was entered.
C18_TrackedAfterQuietFirstOpen ==
    OpensReturned /\ ~crashed /\ Len(matches) = 1
        /\ firstOpen \in {"returned", "concurrent"}
    => offsetfd = matches[1]

\* The first open ran alone, later opens overlapped, one of them opened the
\* target as 3; all have returned and 3 is tracked.
C18_Witness ==
    /\ firstOpen = "concurrent" /\ OpensReturned /\ ~crashed
    /\ matches = <<3>> /\ offsetfd = 3
    /\ Opened /\ last.args[1] = "/other.bin"

====
